---- MODULE Spec2Model ----
(***************************************************************************)
(* Klaxon: the VictorOps client (klaxon/victorops.py) and the memoized     *)
(* incident feed of the web application (klaxon/__init__.py).              *)
(*                                                                         *)
(* Two programs of the repository are modelled, each its own OS process:   *)
(*   "webapp"  create_app(): request-handling threads sharing api_cache    *)
(*             and api_lock (gunicorn gthread executor);                   *)
(*   "cli"     a sequential caller of the VictorOps client (the            *)
(*             victorops_cli entry point and the unit tests).              *)
(*                                                                         *)
(* External library behaviour that the code relies on, as modelled:        *)
(*   cachetools 4.2.0 (pinned in setup.py), cached(cache, lock=lock):      *)
(*       k = key()                                                         *)
(*       try:                                                              *)
(*           with lock: return cache[k]                                    *)
(*       except KeyError: pass                                             *)
(*       v = func()                                                        *)
(*       try:                                                              *)
(*           with lock: return cache.setdefault(k, v)                      *)
(*       except ValueError: return v                                       *)
(*     the lock is taken for the lookup and for the store, and is NOT      *)
(*     held while func runs;                                               *)
(*   cachetools.TTLCache: an item stored at time t expires at t + ttl and  *)
(*     is treated as absent once expire < timer();                         *)
(*   requests: Response.raise_for_status() raises HTTPError exactly for    *)
(*     status codes 400..599; a connection problem raises from the         *)
(*     post()/get() call itself; Response.json() raises ValueError when    *)
(*     the body is not JSON.                                               *)
(***************************************************************************)
EXTENDS Integers, Sequences, FiniteSets, TLC

VARIABLES
    program,      \* which program this process runs: "webapp" or "cli"
    now,          \* the clock (ticks); read by TTLCache's timer and datetime.now
    upstream,     \* the incidents VictorOps currently lists (raw JSON entries)
    api_cache,    \* TTLCache(1, ttl): <<>> or <<[value, expire]>>
    api_lock,     \* threading.RLock: [owner, depth]
    pc,           \* per worker: position in its handler
    now_read,     \* per worker: `now` of fetch_victorops (line 102)
    v,            \* per worker: the value func returned, to be stored
    ret,          \* per worker: what the handler's call returned or raised
    reqs,         \* per worker: HTTP requests issued by the current invocation
    hit,          \* per worker: the lookup of the current get() found a value
    alone,        \* per worker: no other get() ran during the current get()
    peers,        \* per worker: workers whose miss path overlaps with this one
    start_epoch,  \* per worker: number of invalidations done when get() started
    ncalls,       \* upstream incident fetches issued so far (call identity)
    clears,       \* cache invalidations done so far by submit_page
    pages,        \* pages sent so far (POSTs to the create-incident URL)
    vo_team_ids,  \* vo.team_ids: the team filter of the web application's client
    answer,       \* per worker: the HTTP answer its upstream call received
    cli_pc,       \* the sequential caller: "ready" or "done"
    cli_op,       \* the client operation it called last
    cli_in,       \* the inputs of that call (configuration, arguments, HTTP answers)
    cli_out       \* what the call returned or raised, and the HTTP requests it sent

vars == <<program, now, upstream, api_cache, api_lock, pc, now_read, v, ret,
          reqs, hit, alone, peers, start_epoch, ncalls, clears, pages, vo_team_ids,
          answer, cli_pc, cli_op, cli_in, cli_out>>

cli_vars == <<cli_pc, cli_op, cli_in, cli_out>>

web_vars == <<now, upstream, api_cache, api_lock, pc, now_read, v, ret, reqs, hit, alone,
              peers, start_epoch, ncalls, clears, pages, vo_team_ids, answer>>

----------------------------------------------------------------------------
(* Bounds of the model *)

NumWorkers == 2
MaxTime == 2
MaxCalls == 3
MaxPages == 1
MaxIncidents == 2
MaxFeed == 3

(* Configuration (CONFIG_DEFAULTS), in clock ticks *)
KLAXON_INCIDENT_LIST_CACHE_TTL_SECONDS == 1
KLAXON_INCIDENT_LIST_RECENCY_MINUTES == 2

Workers == 1..NumWorkers
None == 0

----------------------------------------------------------------------------
(* HTTP exchanges, as the requests library reports them.                   *)
(*   exc     "none", or the exception session.get()/post() itself raises   *)
(*   status  the response's status code                                    *)
(*   isjson  whether the body parses as JSON (else json() raises)          *)
(*   doc     the JSON object of the body: a record of the keys it holds    *)

Response(status, doc) == [exc |-> "none", status |-> status, isjson |-> TRUE, doc |-> doc]
NotJson(status) == [exc |-> "none", status |-> status, isjson |-> FALSE, doc |-> [x |-> 0]]
Failed(exc) == [exc |-> exc, status |-> 0, isjson |-> FALSE, doc |-> [x |-> 0]]

(* raise_for_status that lets client errors (4xx) pass. *)
raise_for_status_5xx(resp) == IF resp.status >= 500 /\ resp.status < 600 THEN "HTTPError" ELSE "none"

(* Response.raise_for_status(): HTTPError for 4xx and 5xx, nothing else.   *)
raise_for_status(resp) == IF resp.status >= 400 /\ resp.status < 600 THEN "HTTPError" ELSE "none"

(* What one exchange raises before its JSON document is used: the          *)
(* exception of the call, of raise_for_status(), or of json().             *)
exchange_exc(resp) ==
    IF resp.exc # "none" THEN resp.exc
    ELSE IF raise_for_status(resp) # "none" THEN raise_for_status(resp)
    ELSE IF ~resp.isjson THEN "ValueError"
    ELSE "none"

Range(s) == {s[k] : k \in 1..Len(s)}

----------------------------------------------------------------------------
(* VictorOps.__init__: the team filter.  A configured value is             *)
(* [kind |-> "none" | "str" | "set", str, set]; the normalised filter is   *)
(* [none |-> BOOLEAN, set].                                                *)

CfgNone == [kind |-> "none", str |-> "", set |-> {}]
CfgStr(x) == [kind |-> "str", str |-> x, set |-> {}]
CfgSet(S) == [kind |-> "set", str |-> "", set |-> S]

NoFilter == [none |-> TRUE, set |-> {}]
FilterOf(S) == [none |-> FALSE, set |-> S]

setOrStringToSet(c) ==
    IF c.kind = "str" /\ c.str # "" THEN FilterOf({c.str})
    ELSE IF c.kind = "set" /\ c.set # {} THEN FilterOf(c.set)
    ELSE NoFilter

(* create_app: KLAXON_TEAM_IDS_FILTER split on ',' (given here as the      *)
(* sequence of its comma-separated parts; <<>> is the unset variable).     *)
app_team_ids(parts) ==
    setOrStringToSet(CfgSet(IF parts # <<>> THEN Range(parts) ELSE {}))

----------------------------------------------------------------------------
(* Incident parsing *)

RequiredKeys == {"currentPhase", "incidentNumber", "pagedUsers", "startTime", "pagedTeams"}

(* dict.get(k, None) of a string-valued key; None and "" are both falsy. *)
Get(i, k) == IF k \in DOMAIN i THEN i[k] ELSE ""

summary_of(i) ==
    IF Get(i, "service") # "" THEN Get(i, "service")
    ELSE IF Get(i, "entityDisplayName") # "" THEN Get(i, "entityDisplayName")
    ELSE IF Get(i, "monitorName") # "" THEN Get(i, "monitorName")
    ELSE "unknown alert"

NoIncident == [id |-> "", summary |-> "", acked |-> FALSE, time |-> 0, teams |-> {}, paged_users |-> {}]

(* _parse_incident: i['key'] of a missing key raises KeyError.             *)
(* startTime is held as the instant (in ticks) its ISO-8601 text denotes.  *)
parse_incident(i) ==
    IF ~(RequiredKeys \subseteq DOMAIN i) THEN [exc |-> "KeyError", inc |-> NoIncident]
    ELSE [exc |-> "none",
          inc |-> [id |-> i.incidentNumber,
                   summary |-> summary_of(i),
                   acked |-> (i.currentPhase # "UNACKED"),
                   time |-> i.startTime,
                   teams |-> Range(i.pagedTeams),
                   paged_users |-> Range(i.pagedUsers)]]

(* _matches_teams asking for every team of the incident to be in the filter. *)
matches_teams_subset(team_ids, ii) ==
    IF team_ids.none \/ team_ids.set = {} THEN TRUE
    ELSE ii.teams \subseteq team_ids.set

matches_teams(team_ids, ii) ==
    IF team_ids.none \/ team_ids.set = {} THEN TRUE
    ELSE (ii.teams \cap team_ids.set) # {}

(* The generator loop of fetch_incidents over the entries from position k: *)
(* what it has yielded when it ends, and the exception that ended it.      *)
RECURSIVE yield_incidents(_, _, _, _)
yield_incidents(entries, k, team_ids, acc) ==
    IF k > Len(entries) THEN [items |-> acc, exc |-> "none"]
    ELSE LET p == parse_incident(entries[k]) IN
         IF p.exc # "none" THEN [items |-> acc, exc |-> p.exc]
         ELSE yield_incidents(entries, k + 1, team_ids,
                              IF matches_teams(team_ids, p.inc) THEN Append(acc, p.inc) ELSE acc)

(* fetch_incidents, consumed to its end: resp is the answer to its GET. *)
fetch_incidents(resp, team_ids) ==
    IF exchange_exc(resp) # "none" THEN [items |-> <<>>, exc |-> exchange_exc(resp)]
    ELSE IF "incidents" \notin DOMAIN resp.doc THEN [items |-> <<>>, exc |-> "KeyError"]
    ELSE yield_incidents(resp.doc.incidents, 1, team_ids, <<>>)

----------------------------------------------------------------------------
(* fetch_victorops (the memoized function's body) *)

(* The recency test with <= : an incident exactly max_delta old is kept. *)
RECURSIVE FilterInclusive(_, _, _)
FilterInclusive(s, t, max_delta) ==
    IF s = <<>> THEN <<>>
    ELSE (IF t - Head(s).time <= max_delta THEN <<Head(s)>> ELSE <<>>)
         \o FilterInclusive(Tail(s), t, max_delta)

(* [i for i in ... if now - i.time < max_delta] *)
RECURSIVE Filter(_, _, _)
Filter(s, t, max_delta) ==
    IF s = <<>> THEN <<>>
    ELSE (IF t - Head(s).time < max_delta THEN <<Head(s)>> ELSE <<>>) \o Filter(Tail(s), t, max_delta)

(* list.sort(key=attrgetter('time')): ascending and stable: an element is  *)
(* placed after the elements already there whose time is not greater.      *)
RECURSIVE InsertByTime(_, _)
InsertByTime(x, s) ==
    IF s = <<>> THEN <<x>>
    ELSE IF Head(s).time <= x.time THEN <<Head(s)>> \o InsertByTime(x, Tail(s))
    ELSE <<x>> \o s

RECURSIVE SortByTime(_)
SortByTime(s) ==
    IF s = <<>> THEN <<>>
    ELSE InsertByTime(s[Len(s)], SortByTime(SubSeq(s, 1, Len(s) - 1)))

(* rv.reverse() left out: the list stays in ascending order. *)
ReverseOmitted(s) == s

(* list.reverse() *)
Reverse(s) == [k \in 1..Len(s) |-> s[Len(s) + 1 - k]]

(* The list fetch_victorops returns from the incidents that were fetched,  *)
(* with t the `now` it read.                                               *)
recent_sorted(items, t) ==
    Reverse(SortByTime(Filter(items, t, KLAXON_INCIDENT_LIST_RECENCY_MINUTES)))

----------------------------------------------------------------------------
(* Values a handler's call returns or raises.  `call` is the identity of   *)
(* the list object (the upstream fetch that produced it); `epoch` is the   *)
(* number of invalidations that were done when its response arrived.       *)

NoVal == [kind |-> "none", list |-> <<>>, call |-> 0, epoch |-> 0]
Val(list, call, epoch) == [kind |-> "value", list |-> list, call |-> call, epoch |-> epoch]
Raised(exc) == [kind |-> exc, list |-> <<>>, call |-> 0, epoch |-> 0]

(* Live without the expiry test: an item is served for ever. *)
LiveIgnoringExpiry(cache, t) == Len(cache) = 1

(* TTLCache: the item, unless it has expired (expire < timer()). *)
Live(cache, t) == Len(cache) = 1 /\ ~(cache[1].expire < t)

(* threading.RLock *)
Unlocked == [owner |-> None, depth |-> 0]
CanAcquire(w) == api_lock.owner \in {None, w}
Acquired(w) == [owner |-> w, depth |-> api_lock.depth + 1]
Released == IF api_lock.depth <= 1 THEN Unlocked ELSE [api_lock EXCEPT !.depth = @ - 1]

InGet == {"lookup_wait", "lookup", "miss", "fetching", "store_wait", "store"}
MissPath == {"miss", "fetching", "store_wait", "store"}
BeforeFetch == {"lookup_wait", "lookup", "miss"}

----------------------------------------------------------------------------
(* VictorOps.send_page: the exception it raises ("none": it returns). *)
send_page(resp) ==
    IF exchange_exc(resp) # "none" THEN exchange_exc(resp)
    ELSE IF "result" \notin DOMAIN resp.doc THEN "KeyError"
    ELSE IF resp.doc.result # "success" THEN "VictorOpsError"
    ELSE "none"

----------------------------------------------------------------------------
(* The web application *)

Entry(service, phase, time, teams, users, number) ==
    [service |-> service, currentPhase |-> phase, startTime |-> time,
     pagedTeams |-> teams, pagedUsers |-> users, incidentNumber |-> number]

(* The incidents VictorOps lists when the application starts. *)
WebFeed ==
    << Entry("PerplexityTooHigh_60m", "ACKED", -1, <<"team-sre">>, <<"rzl">>, "60"),
       Entry("unacked and not paging anyone", "UNACKED", 0, <<"team-sre">>, <<>>, "61"),
       Entry("wrong team", "UNACKED", 0, <<"team-xyzzy">>, <<>>, "67"),
       Entry("acked", "ACKED", 0, <<"team-sre">>, <<>>, "63") >>

(* The incident a sent page creates. *)
PageEntry(t) == Entry("Manual #page", "UNACKED", t, <<"team-sre">>, <<>>, "70")

(* An entry without the pagedUsers key. *)
MalformedEntry ==
    [service |-> "no paged users key", currentPhase |-> "UNACKED", startTime |-> 0,
     pagedTeams |-> <<"team-sre">>, incidentNumber |-> "68"]

(* Answers of the incidents endpoint (the list; an error status; the list  *)
(* with a malformed entry at its end) and of the create-incident endpoint. *)
IncidentsAnswers ==
    {Response(200, [incidents |-> upstream]), NotJson(503),
     Response(200, [incidents |-> Append(upstream, MalformedEntry)])}
CreateAnswers == {Response(200, [result |-> "success"]), Response(200, [result |-> "failure"]),
                  NotJson(503)}

(* No upstream call of the current invocation has been answered. *)
NoAnswer == Failed("none")

(* The sequential caller before its first call. *)
NoIn == [cfg |-> CfgNone, policies |-> CfgNone, incidents |-> <<>>, policy |-> "",
         resp |-> Failed("none"), resp2 |-> Failed("none")]
NoOut == [exc |-> "none", items |-> <<>>, names |-> <<>>, returned |-> "None",
          doc |-> [x |-> 0], log |-> <<>>]

CliIdle ==
    /\ cli_pc = "ready"
    /\ cli_op = "none"
    /\ cli_in = NoIn
    /\ cli_out = NoOut

WebIdle ==
    /\ now = 0
    /\ upstream = WebFeed
    /\ api_cache = <<>>
    /\ api_lock = Unlocked
    /\ pc = [w \in Workers |-> "idle"]
    /\ now_read = [w \in Workers |-> 0]
    /\ v = [w \in Workers |-> NoVal]
    /\ ret = [w \in Workers |-> NoVal]
    /\ reqs = [w \in Workers |-> 0]
    /\ hit = [w \in Workers |-> FALSE]
    /\ alone = [w \in Workers |-> FALSE]
    /\ peers = [w \in Workers |-> {}]
    /\ start_epoch = [w \in Workers |-> 0]
    /\ ncalls = 0
    /\ clears = 0
    /\ pages = 0
    /\ vo_team_ids = app_team_ids(<<"team-sre">>)
    /\ answer = [w \in Workers |-> NoAnswer]

WebInit == program = "webapp" /\ WebIdle /\ CliIdle

(* recent_incidents() calls fetch_victorops(): the wrapper of              *)
(* cachetools.cached starts.                                               *)
StartGet(w) ==
    /\ program = "webapp"
    /\ pc[w] = "idle"
    /\ ncalls + Cardinality({u \in Workers : pc[u] \in BeforeFetch}) < MaxCalls
    /\ pc' = [pc EXCEPT ![w] = "lookup_wait"]
    /\ alone' = [u \in Workers |->
                    IF u = w THEN \A x \in Workers \ {w} : pc[x] \notin InGet
                    ELSE IF pc[u] \in InGet THEN FALSE ELSE alone[u]]
    /\ start_epoch' = [start_epoch EXCEPT ![w] = clears]
    /\ UNCHANGED <<program, now, upstream, api_cache, api_lock, now_read, v, ret, reqs,
                   hit, peers, ncalls, clears, pages, vo_team_ids, answer, cli_vars>>

(* with lock: (entering, before the lookup) *)
AcquireLookup(w) ==
    /\ pc[w] = "lookup_wait"
    /\ CanAcquire(w)
    /\ api_lock' = Acquired(w)
    /\ pc' = [pc EXCEPT ![w] = "lookup"]
    /\ UNCHANGED <<program, now, upstream, api_cache, now_read, v, ret, reqs, hit, alone,
                   peers, start_epoch, ncalls, clears, pages, vo_team_ids, answer, cli_vars>>

(* Lookup that keeps the lock on a miss, so that it is held across func(). *)
LookupHoldingLock(w) ==
    /\ pc[w] = "lookup"
    /\ IF Live(api_cache, now)
       THEN /\ ret' = [ret EXCEPT ![w] = api_cache[1].value]
            /\ hit' = [hit EXCEPT ![w] = TRUE]
            /\ pc' = [pc EXCEPT ![w] = "get_done"]
            /\ api_lock' = Released
            /\ UNCHANGED peers
       ELSE /\ pc' = [pc EXCEPT ![w] = "miss"]
            /\ peers' = [u \in Workers |->
                            IF u = w THEN {x \in Workers \ {w} : pc[x] \in MissPath}
                            ELSE IF pc[u] \in MissPath THEN peers[u] \cup {w}
                            ELSE peers[u]]
            /\ UNCHANGED <<ret, hit, api_lock>>
    /\ UNCHANGED <<program, now, upstream, api_cache, now_read, v, reqs, alone,
                   start_epoch, ncalls, clears, pages, vo_team_ids, answer, cli_vars>>

(* return cache[k], or KeyError; the lock is released either way. *)
Lookup(w) ==
    /\ pc[w] = "lookup"
    /\ api_lock' = Released
    /\ IF Live(api_cache, now)
       THEN /\ ret' = [ret EXCEPT ![w] = api_cache[1].value]
            /\ hit' = [hit EXCEPT ![w] = TRUE]
            /\ pc' = [pc EXCEPT ![w] = "get_done"]
            /\ UNCHANGED peers
       ELSE /\ pc' = [pc EXCEPT ![w] = "miss"]
            /\ peers' = [u \in Workers |->
                            IF u = w THEN {x \in Workers \ {w} : pc[x] \in MissPath}
                            ELSE IF pc[u] \in MissPath THEN peers[u] \cup {w}
                            ELSE peers[u]]
            /\ UNCHANGED <<ret, hit>>
    /\ UNCHANGED <<program, now, upstream, api_cache, now_read, v, reqs, alone,
                   start_epoch, ncalls, clears, pages, vo_team_ids, answer, cli_vars>>

(* func(): fetch_victorops reads `now`, then the list comprehension starts *)
(* the generator, which sends the GET.                                     *)
BeginFetch(w) ==
    /\ pc[w] = "miss"
    /\ now_read' = [now_read EXCEPT ![w] = now]
    /\ ncalls' = ncalls + 1
    /\ reqs' = [reqs EXCEPT ![w] = @ + 1]
    /\ v' = [v EXCEPT ![w] = Val(<<>>, ncalls + 1, 0)]
    /\ pc' = [pc EXCEPT ![w] = "fetching"]
    /\ UNCHANGED <<program, now, upstream, api_cache, api_lock, ret, hit, alone, peers,
                   start_epoch, clears, pages, vo_team_ids, answer, cli_vars>>

(* FetchReturn with the failure swallowed: an empty list is returned to    *)
(* the wrapper, which stores it.                                           *)
FetchReturnCachingFailure(w) ==
    /\ pc[w] = "fetching"
    /\ \E resp \in IncidentsAnswers :
         LET r == fetch_incidents(resp, vo_team_ids) IN
         /\ answer' = [answer EXCEPT ![w] = resp]
         /\ v' = [v EXCEPT ![w] = Val(IF r.exc # "none" THEN <<>>
                                      ELSE recent_sorted(r.items, now_read[w]),
                                      v[w].call, clears)]
         /\ pc' = [pc EXCEPT ![w] = "store_wait"]
         /\ UNCHANGED ret
    /\ UNCHANGED <<program, now, upstream, api_cache, api_lock, now_read, reqs, hit, alone,
                   peers, start_epoch, ncalls, clears, pages, vo_team_ids, cli_vars>>

(* The answer arrives; the generator is consumed, the list filtered,       *)
(* sorted and reversed; an exception leaves the wrapper at once.           *)
FetchReturn(w) ==
    /\ pc[w] = "fetching"
    /\ \E resp \in IncidentsAnswers :
         LET r == fetch_incidents(resp, vo_team_ids) IN
         /\ answer' = [answer EXCEPT ![w] = resp]
         /\ IF r.exc # "none"
            THEN /\ ret' = [ret EXCEPT ![w] = Raised(r.exc)]
                 /\ v' = [v EXCEPT ![w] = NoVal]
                 /\ pc' = [pc EXCEPT ![w] = "get_done"]
            ELSE /\ v' = [v EXCEPT ![w] = Val(recent_sorted(r.items, now_read[w]), v[w].call, clears)]
                 /\ pc' = [pc EXCEPT ![w] = "store_wait"]
                 /\ UNCHANGED ret
    /\ UNCHANGED <<program, now, upstream, api_cache, api_lock, now_read, reqs, hit, alone,
                   peers, start_epoch, ncalls, clears, pages, vo_team_ids, cli_vars>>

(* with lock: (entering, before the store) *)
AcquireStore(w) ==
    /\ pc[w] = "store_wait"
    /\ CanAcquire(w)
    /\ api_lock' = Acquired(w)
    /\ pc' = [pc EXCEPT ![w] = "store"]
    /\ UNCHANGED <<program, now, upstream, api_cache, now_read, v, ret, reqs, hit, alone,
                   peers, start_epoch, ncalls, clears, pages, vo_team_ids, answer, cli_vars>>

(* return cache.setdefault(k, v): the item already there if it is live,    *)
(* else v is stored with expire = timer() + ttl.                           *)
Store(w) ==
    /\ pc[w] = "store"
    /\ api_lock' = Released
    /\ IF Live(api_cache, now)
       THEN /\ ret' = [ret EXCEPT ![w] = api_cache[1].value]
            /\ UNCHANGED api_cache
       ELSE /\ api_cache' = <<[value |-> v[w],
                               expire |-> now + KLAXON_INCIDENT_LIST_CACHE_TTL_SECONDS]>>
            /\ ret' = [ret EXCEPT ![w] = v[w]]
    /\ pc' = [pc EXCEPT ![w] = "get_done"]
    /\ UNCHANGED <<program, now, upstream, now_read, v, reqs, hit, alone, peers,
                   start_epoch, ncalls, clears, pages, vo_team_ids, answer, cli_vars>>

(* The handler has answered; the thread takes the next request. *)
Finish(w) ==
    /\ pc[w] \in {"get_done", "submit_done"}
    /\ pc' = [pc EXCEPT ![w] = "idle"]
    /\ now_read' = [now_read EXCEPT ![w] = 0]
    /\ v' = [v EXCEPT ![w] = NoVal]
    /\ ret' = [ret EXCEPT ![w] = NoVal]
    /\ reqs' = [reqs EXCEPT ![w] = 0]
    /\ hit' = [hit EXCEPT ![w] = FALSE]
    /\ alone' = [alone EXCEPT ![w] = FALSE]
    /\ peers' = [u \in Workers |-> IF u = w THEN {} ELSE peers[u] \ {w}]
    /\ start_epoch' = [start_epoch EXCEPT ![w] = 0]
    /\ answer' = [answer EXCEPT ![w] = NoAnswer]
    /\ UNCHANGED <<program, now, upstream, api_cache, api_lock, ncalls, clears, pages,
                   vo_team_ids, cli_vars>>

(* submit_page: vo.send_page() sends its POST. *)
StartSubmit(w) ==
    /\ program = "webapp"
    /\ pc[w] = "idle"
    /\ pages < MaxPages
    /\ pages' = pages + 1
    /\ reqs' = [reqs EXCEPT ![w] = @ + 1]
    /\ pc' = [pc EXCEPT ![w] = "sending"]
    /\ UNCHANGED <<program, now, upstream, api_cache, api_lock, now_read, v, ret, hit,
                   alone, peers, start_epoch, ncalls, clears, vo_team_ids, answer, cli_vars>>

(* SendPageReturn with the invalidation in a `finally`: the cache is       *)
(* cleared also when send_page raised.                                     *)
SendPageReturnAlwaysClearing(w) ==
    /\ pc[w] = "sending"
    /\ \E resp \in CreateAnswers :
         /\ answer' = [answer EXCEPT ![w] = resp]
         /\ upstream' = IF send_page(resp) = "none" THEN Append(upstream, PageEntry(now))
                        ELSE upstream
         /\ pc' = [pc EXCEPT ![w] = "clear_wait"]
         /\ UNCHANGED ret
    /\ UNCHANGED <<program, now, api_cache, api_lock, now_read, v, reqs, hit, alone,
                   peers, start_epoch, ncalls, clears, pages, vo_team_ids, cli_vars>>

(* send_page returns or raises; an exception leaves submit_page at once. *)
SendPageReturn(w) ==
    /\ pc[w] = "sending"
    /\ \E resp \in CreateAnswers :
         /\ answer' = [answer EXCEPT ![w] = resp]
         /\ IF send_page(resp) # "none"
            THEN /\ ret' = [ret EXCEPT ![w] = Raised(send_page(resp))]
                 /\ pc' = [pc EXCEPT ![w] = "submit_done"]
                 /\ UNCHANGED upstream
            ELSE /\ upstream' = Append(upstream, PageEntry(now))
                 /\ pc' = [pc EXCEPT ![w] = "clear_wait"]
                 /\ UNCHANGED ret
    /\ UNCHANGED <<program, now, api_cache, api_lock, now_read, v, reqs, hit, alone,
                   peers, start_epoch, ncalls, clears, pages, vo_team_ids, cli_vars>>

(* with api_lock: (entering) *)
AcquireClear(w) ==
    /\ pc[w] = "clear_wait"
    /\ CanAcquire(w)
    /\ api_lock' = Acquired(w)
    /\ pc' = [pc EXCEPT ![w] = "clear"]
    /\ UNCHANGED <<program, now, upstream, api_cache, now_read, v, ret, reqs, hit, alone,
                   peers, start_epoch, ncalls, clears, pages, vo_team_ids, answer, cli_vars>>

(* api_cache.clear(), the lock released, flash() and redirect('/'). *)
Clear(w) ==
    /\ pc[w] = "clear"
    /\ api_cache' = <<>>
    /\ api_lock' = Released
    /\ clears' = clears + 1
    /\ ret' = [ret EXCEPT ![w] = Raised("redirect")]
    /\ pc' = [pc EXCEPT ![w] = "submit_done"]
    /\ UNCHANGED <<program, now, upstream, now_read, v, reqs, hit, alone, peers,
                   start_epoch, ncalls, pages, vo_team_ids, answer, cli_vars>>

(* Time passes. *)
Tick ==
    /\ program = "webapp"
    /\ now < MaxTime
    /\ now' = now + 1
    /\ UNCHANGED <<program, upstream, api_cache, api_lock, pc, now_read, v, ret, reqs, hit,
                   alone, peers, start_epoch, ncalls, clears, pages, vo_team_ids, answer, cli_vars>>

WebNext ==
    \/ \E w \in Workers :
         \/ StartGet(w) \/ AcquireLookup(w) \/ Lookup(w) \/ BeginFetch(w) \/ FetchReturn(w)
         \/ AcquireStore(w) \/ Store(w) \/ Finish(w)
         \/ StartSubmit(w) \/ SendPageReturn(w) \/ AcquireClear(w) \/ Clear(w)
    \/ Tick

WebSpec == WebInit /\ [][WebNext]_vars

----------------------------------------------------------------------------
(* The rest of the VictorOps client *)

Req(method, url, body) == [method |-> method, url |-> url, body |-> body]
GetIncidents == Req("GET", "api-public/v1/incidents", [x |-> 0])
GetOncall == Req("GET", "api-public/v1/oncall/current", [x |-> 0])

(* send_page that sends its request again when the exchange failed. *)
send_page_call_retrying(summary, description, resp) ==
    LET post == Req("POST", "create_incident_url",
                    [message_type |-> "CRITICAL", entity_display_name |-> summary,
                     state_message |-> description])
    IN [NoOut EXCEPT !.exc = send_page(resp),
                     !.log = IF exchange_exc(resp) # "none" THEN <<post, post>> ELSE <<post>>]

(* send_page as a call: what it raises and the requests it sent. *)
send_page_call(summary, description, resp) ==
    [NoOut EXCEPT
       !.exc = send_page(resp),
       !.log = <<Req("POST", "create_incident_url",
                     [message_type |-> "CRITICAL", entity_display_name |-> summary,
                      state_message |-> description])>>]

(* fetch_incidents as a call whose generator is consumed by list(). *)
fetch_incidents_call(team_ids, resp) ==
    LET r == fetch_incidents(resp, team_ids) IN
    [NoOut EXCEPT !.exc = r.exc, !.items = r.items, !.returned = "items",
                  !.log = <<GetIncidents>>]

(* fetch_oncallers: the usernames of one oncallNow entry, of one team, of  *)
(* the whole answer, in the answer's order.                                *)
users_of(o) == [k \in 1..Len(o.users) |-> o.users[k].onCalluser.username]

RECURSIVE oncall_of_team(_, _, _)
oncall_of_team(oncallNow, k, esc_policy_ids) ==
    IF k > Len(oncallNow) THEN <<>>
    ELSE (IF ~esc_policy_ids.none /\ esc_policy_ids.set # {}
             /\ oncallNow[k].escalationPolicy.slug \notin esc_policy_ids.set
          THEN <<>> ELSE users_of(oncallNow[k]))
         \o oncall_of_team(oncallNow, k + 1, esc_policy_ids)

RECURSIVE oncall_of_teams(_, _, _, _)
oncall_of_teams(teams, k, team_ids, esc_policy_ids) ==
    IF k > Len(teams) THEN <<>>
    ELSE (IF ~team_ids.none /\ team_ids.set # {} /\ teams[k].team.slug \notin team_ids.set
          THEN <<>> ELSE oncall_of_team(teams[k].oncallNow, 1, esc_policy_ids))
         \o oncall_of_teams(teams, k + 1, team_ids, esc_policy_ids)

fetch_oncallers_call(team_ids, esc_policy_ids, resp) ==
    IF exchange_exc(resp) # "none"
    THEN [NoOut EXCEPT !.exc = exchange_exc(resp), !.log = <<GetOncall>>]
    ELSE IF "teamsOnCall" \notin DOMAIN resp.doc
    THEN [NoOut EXCEPT !.exc = "KeyError", !.log = <<GetOncall>>]
    ELSE [NoOut EXCEPT !.names = oncall_of_teams(resp.doc.teamsOnCall, 1, team_ids, esc_policy_ids),
                       !.returned = "names", !.log = <<GetOncall>>]

(* reroute_incidents: nothing is sent for an empty list. *)
reroute_payload(incidents, escalate_to_policy, username) ==
    [userName |-> username,
     reroutes |-> [k \in 1..Len(incidents) |->
                     [incidentNumber |-> incidents[k].id,
                      targets |-> <<[type |-> "EscalationPolicy", slug |-> escalate_to_policy]>>]]]

(* reroute_incidents without its guard: the request is sent for any list. *)
reroute_incidents_unguarded(incidents, escalate_to_policy, username, resp) ==
    LET sent == <<Req("POST", "api-public/v1/incidents/reroute",
                      reroute_payload(incidents, escalate_to_policy, username))>> IN
    IF exchange_exc(resp) # "none" THEN [NoOut EXCEPT !.exc = exchange_exc(resp), !.log = sent]
    ELSE [NoOut EXCEPT !.returned = "json", !.doc = resp.doc, !.log = sent]

reroute_incidents(incidents, escalate_to_policy, username, resp) ==
    IF incidents = <<>> THEN NoOut
    ELSE LET sent == <<Req("POST", "api-public/v1/incidents/reroute",
                           reroute_payload(incidents, escalate_to_policy, username))>> IN
         IF exchange_exc(resp) # "none" THEN [NoOut EXCEPT !.exc = exchange_exc(resp), !.log = sent]
         ELSE [NoOut EXCEPT !.returned = "json", !.doc = resp.doc, !.log = sent]

(* escalatable that looks at acked alone. *)
escalatable_unacked(items) == SelectSeq(items, LAMBDA i : ~i.acked)

RECURSIVE escalatable(_)
escalatable(items) ==
    IF items = <<>> THEN <<>>
    ELSE (IF ~Head(items).acked /\ Head(items).paged_users = {} THEN <<Head(items)>> ELSE <<>>)
         \o escalatable(Tail(items))

(* escalate_unpaged_incidents: resp answers the GET, resp2 the POST. *)
escalate_unpaged_incidents(team_ids, escalate_to_policy, username, resp, resp2) ==
    LET f == fetch_incidents(resp, team_ids) IN
    IF f.exc # "none" THEN [NoOut EXCEPT !.exc = f.exc, !.log = <<GetIncidents>>]
    ELSE LET r == reroute_incidents(escalatable(f.items), escalate_to_policy, username, resp2) IN
         [r EXCEPT !.log = <<GetIncidents>> \o r.log]

----------------------------------------------------------------------------
(* The sequential caller: inputs *)

SeqsUpTo(S, n) == UNION {[1..k -> S] : k \in 0..n}

(* Raw entries of the incidents endpoint: unpaged, paged, acked, of        *)
(* another team, one without pagedUsers, and one with no title field.      *)
EntryPool ==
    { Entry("unacked and not paging anyone", "UNACKED", 0, <<"team-sre">>, <<>>, "61"),
      Entry("unacked but has paged someone", "UNACKED", 0, <<"team-sre">>, <<"godog">>, "62"),
      Entry("acked", "ACKED", 0, <<"team-sre">>, <<>>, "63"),
      Entry("wrong team", "UNACKED", 0, <<"team-xyzzy">>, <<>>, "67"),
      [service |-> "no paged users key", currentPhase |-> "UNACKED", startTime |-> 0,
       pagedTeams |-> <<"team-sre">>, incidentNumber |-> "68"],
      [currentPhase |-> "RESOLVED", startTime |-> -1, pagedTeams |-> <<"team-xyzzy", "team-sre">>,
       pagedUsers |-> <<"rzl">>, incidentNumber |-> "60"] }

BadAnswers == {Failed("ConnectTimeout"), NotJson(503), NotJson(200), Response(200, [x |-> 0])}

IncidentsInputs ==
    {Response(200, [incidents |-> es]) : es \in SeqsUpTo(EntryPool, MaxIncidents)}
    \cup BadAnswers

CreateInputs ==
    { Failed("ConnectTimeout"), Failed("ConnectionError"),
      NotJson(503), Response(503, [result |-> "success"]), Response(404, [result |-> "failure"]),
      Response(200, [result |-> "success"]), Response(200, [result |-> "failure"]),
      Response(201, [result |-> "failure"]), Response(304, [result |-> "failure"]),
      NotJson(304), NotJson(200), Response(200, [x |-> 0]) }

RerouteInputs == {Response(200, [x |-> 0]), NotJson(503), Failed("ConnectTimeout")}

OnCall(policy, names) ==
    [escalationPolicy |-> [slug |-> policy],
     users |-> [k \in 1..Len(names) |-> [onCalluser |-> [username |-> names[k]]]]]

OncallInputs ==
    { Response(200, [teamsOnCall |-> <<[team |-> [slug |-> "team-sre"],
                                        oncallNow |-> <<OnCall("pol-xyzzyblah", <<"cdanis", "rzl">>)>>]>>]),
      Response(200, [teamsOnCall |->
          <<[team |-> [slug |-> "team-xyzzyblah"],
             oncallNow |-> <<OnCall("pol-xyzzyblah", <<"cdanis", "rzl">>),
                             OnCall("pol-pleasestop", <<"literally", "everybody">>)>>],
            [team |-> [slug |-> "team-abcd12345"],
             oncallNow |-> <<OnCall("pol-xyzzyblah", <<"bstorm">>)>>]>>]),
      NotJson(503), Failed("ConnectTimeout") }

(* Values given for team_ids: absent, a string, a set. *)
TeamCfgs ==
    {CfgNone, CfgStr(""), CfgStr("team-sre"), CfgSet({}), CfgSet({"team-sre"}),
     CfgSet({"team-sre", "team-xyzzy"})}
OncallTeamCfgs == {CfgNone, CfgStr("team-xyzzyblah"), CfgSet({"team-sre", "team-abcd12345"})}
PolicyCfgs == {CfgNone, CfgStr("pol-xyzzyblah"), CfgSet({"pol-pleasestop"})}

(* Parsed incidents handed to reroute_incidents directly. *)
IncidentPool ==
    {parse_incident(e).inc : e \in {x \in EntryPool : RequiredKeys \subseteq DOMAIN x}}

----------------------------------------------------------------------------
(* The sequential caller: one action per client operation *)

CliSendPage ==
    /\ program = "cli" /\ cli_pc = "ready"
    /\ \E resp \in CreateInputs :
         /\ cli_in' = [NoIn EXCEPT !.resp = resp]
         /\ cli_out' = send_page_call("Klaxonbot", "You missed a page from victorops", resp)
    /\ cli_op' = "send_page"
    /\ cli_pc' = "done"
    /\ UNCHANGED <<program, web_vars>>

CliFetchIncidents ==
    /\ program = "cli" /\ cli_pc = "ready"
    /\ \E cfg \in TeamCfgs, resp \in IncidentsInputs :
         /\ cli_in' = [NoIn EXCEPT !.cfg = cfg, !.resp = resp]
         /\ cli_out' = fetch_incidents_call(setOrStringToSet(cfg), resp)
    /\ cli_op' = "fetch_incidents"
    /\ cli_pc' = "done"
    /\ UNCHANGED <<program, web_vars>>

CliFetchOncallers ==
    /\ program = "cli" /\ cli_pc = "ready"
    /\ \E cfg \in OncallTeamCfgs, pol \in PolicyCfgs, resp \in OncallInputs :
         /\ cli_in' = [NoIn EXCEPT !.cfg = cfg, !.policies = pol, !.resp = resp]
         /\ cli_out' = fetch_oncallers_call(setOrStringToSet(cfg), setOrStringToSet(pol), resp)
    /\ cli_op' = "fetch_oncallers"
    /\ cli_pc' = "done"
    /\ UNCHANGED <<program, web_vars>>

CliReroute ==
    /\ program = "cli" /\ cli_pc = "ready"
    /\ \E incidents \in SeqsUpTo(IncidentPool, MaxIncidents), resp \in RerouteInputs :
         /\ cli_in' = [NoIn EXCEPT !.incidents = incidents, !.policy = "pol-batphone", !.resp2 = resp]
         /\ cli_out' = reroute_incidents(incidents, "pol-batphone", "escalator_sysuser", resp)
    /\ cli_op' = "reroute_incidents"
    /\ cli_pc' = "done"
    /\ UNCHANGED <<program, web_vars>>

CliEscalateUnpaged ==
    /\ program = "cli" /\ cli_pc = "ready"
    /\ \E cfg \in TeamCfgs, resp \in IncidentsInputs, resp2 \in RerouteInputs :
         /\ cli_in' = [NoIn EXCEPT !.cfg = cfg, !.policy = "pol-batphone", !.resp = resp,
                                   !.resp2 = resp2]
         /\ cli_out' = escalate_unpaged_incidents(setOrStringToSet(cfg), "pol-batphone",
                                                  "escalator_sysuser", resp, resp2)
    /\ cli_op' = "escalate_unpaged_incidents"
    /\ cli_pc' = "done"
    /\ UNCHANGED <<program, web_vars>>

(* The caller makes its next call. *)
CliNextCall ==
    /\ program = "cli" /\ cli_pc = "done"
    /\ cli_pc' = "ready" /\ cli_op' = "none" /\ cli_in' = NoIn /\ cli_out' = NoOut
    /\ UNCHANGED <<program, web_vars>>

ClientInit == program = "cli" /\ WebIdle /\ CliIdle

ClientNext ==
    \/ CliSendPage \/ CliFetchIncidents \/ CliFetchOncallers \/ CliReroute
    \/ CliEscalateUnpaged \/ CliNextCall

ClientSpec == ClientInit /\ [][ClientNext]_vars

(* The web application with one worker thread and any list of incidents   *)
(* at VictorOps: every list fetch_victorops can be given to filter and     *)
(* sort, early and late in the cached item's life.                         *)
FeedPool ==
    { Entry("two ticks old", "ACKED", -2, <<"team-sre">>, <<"rzl">>, "80"),
      Entry("one tick old", "UNACKED", -1, <<"team-sre">>, <<>>, "81"),
      Entry("now", "UNACKED", 0, <<"team-sre">>, <<>>, "82"),
      Entry("now too", "ACKED", 0, <<"team-sre">>, <<"godog">>, "83"),
      Entry("one tick ahead", "UNACKED", 1, <<"team-sre">>, <<>>, "84") }

Feeds == SeqsUpTo(FeedPool, MaxFeed)

FeedInit ==
    /\ program = "webapp"
    /\ now = 0
    /\ upstream \in Feeds
    /\ api_cache = <<>>
    /\ api_lock = Unlocked
    /\ pc = [w \in Workers |-> "idle"]
    /\ now_read = [w \in Workers |-> 0]
    /\ v = [w \in Workers |-> NoVal]
    /\ ret = [w \in Workers |-> NoVal]
    /\ reqs = [w \in Workers |-> 0]
    /\ hit = [w \in Workers |-> FALSE]
    /\ alone = [w \in Workers |-> FALSE]
    /\ peers = [w \in Workers |-> {}]
    /\ start_epoch = [w \in Workers |-> 0]
    /\ ncalls = 0
    /\ clears = 0
    /\ pages = 0
    /\ vo_team_ids = app_team_ids(<<"team-sre">>)
    /\ answer = [w \in Workers |-> NoAnswer]
    /\ CliIdle

FeedNext ==
    \/ StartGet(1) \/ AcquireLookup(1) \/ Lookup(1) \/ BeginFetch(1) \/ FetchReturn(1)
    \/ AcquireStore(1) \/ Store(1) \/ Finish(1)
    \/ Tick

FeedSpec == FeedInit /\ [][FeedNext]_vars

(* Either program. *)
Init == WebInit \/ ClientInit
Next == WebNext \/ ClientNext
Spec == Init /\ [][Next]_vars

----------------------------------------------------------------------------
(* Properties of the memoized feed (WebSpec) *)

Fetching == {w \in Workers : pc[w] = "fetching"}

(* C1: at most one upstream fetch_incidents call is in flight at any       *)
(* instant, however many workers call the memoized fetch_victorops.        *)
C1_SingleFlight == Cardinality(Fetching) <= 1

(* C2: two get() calls whose miss paths overlapped (each saw a miss before *)
(* the other had stored) return the same list, the result of one upstream  *)
(* call.                                                                   *)
C2_OverlappingMissesAgree ==
    \A a \in Workers : \A b \in Workers \ {a} :
        ( /\ pc[a] = "get_done" /\ pc[b] = "get_done"
          /\ b \in peers[a] /\ a \in peers[b]
          /\ ret[a].kind = "value" /\ ret[b].kind = "value" )
        => ret[a].call = ret[b].call

(* C3: a get() that starts after submit_page has cleared the cache never   *)
(* returns a list whose upstream answer arrived before that invalidation.  *)
C3_FreshAfterInvalidate ==
    \A w \in Workers :
        (pc[w] = "get_done" /\ ret[w].kind = "value") => ret[w].epoch >= start_epoch[w]

(* The slot holds a result that has not expired. *)
SlotHoldsResult == api_cache # <<>> /\ now <= api_cache[1].expire

(* Upstream calls counted at the end of a get() that no other get()        *)
(* overlaps: none on a hit, one on a miss.                                 *)
C4_Counts ==
    \A w \in Workers :
        (pc[w] = "get_done" /\ alone[w]) =>
            /\ hit[w] => (reqs[w] = 0 /\ ret[w].kind = "value")
            /\ ~hit[w] => reqs[w] = 1

(* What the lookup and the store of such a get() do to the slot. *)
C4_Steps ==
    \A w \in Workers :
        alone[w] =>
            /\ (pc[w] = "lookup" /\ pc'[w] # "lookup") =>
                   IF SlotHoldsResult
                   THEN pc'[w] = "get_done" /\ ret'[w] = api_cache[1].value /\ ncalls' = ncalls
                   ELSE pc'[w] = "miss"
            /\ (pc[w] = "store" /\ pc'[w] # "store") =>
                   /\ pc'[w] = "get_done"
                   /\ ret'[w] = v[w] /\ v[w].call = ncalls
                   /\ SlotHoldsResult' /\ api_cache'[1].value = v[w]

(* C4: for a get() that no other get() overlaps: on a live (not expired,   *)
(* not invalidated) stored result it returns that stored list and makes no *)
(* upstream call; on a miss (after expiry or invalidation) it makes        *)
(* exactly one upstream call, and stores and returns that call's list.     *)
C4_SequentialGets == [](C4_Counts) /\ [][C4_Steps]_vars

C4_Witness ==
    \E w \in Workers :
        /\ pc[w] = "get_done" /\ alone[w] /\ ~hit[w]
        /\ ret[w].kind = "value" /\ ret[w].call >= 2 /\ reqs[w] = 1
        /\ SlotHoldsResult /\ api_cache[1].value = ret[w]

----------------------------------------------------------------------------
(* Properties of the VictorOps client (ClientSpec), stated on the raw      *)
(* answer the call was given and on what the call returned and sent.       *)

Called(op) == cli_pc = "done" /\ cli_op = op

(* The answer to the incidents GET is a 2xx JSON document whose entries    *)
(* all hold the required fields.                                           *)
GoodIncidentsAnswer(resp) ==
    /\ resp.exc = "none" /\ resp.status \in 200..299 /\ resp.isjson
    /\ "incidents" \in DOMAIN resp.doc
    /\ \A k \in 1..Len(resp.doc.incidents) : RequiredKeys \subseteq DOMAIN resp.doc.incidents[k]

(* The team filter a configured value stands for; {} is "no filter". *)
ConfiguredTeams(cfg) ==
    IF cfg.kind = "str" THEN (IF cfg.str = "" THEN {} ELSE {cfg.str})
    ELSE IF cfg.kind = "set" THEN cfg.set
    ELSE {}

PassesTeamFilter(cfg, e) ==
    ConfiguredTeams(cfg) = {} \/ \E k \in 1..Len(e.pagedTeams) : e.pagedTeams[k] \in ConfiguredTeams(cfg)

IsUnpaged(e) == e.currentPhase = "UNACKED" /\ e.pagedUsers = <<>>

RerouteRequests(log) == {k \in 1..Len(log) : log[k].url = "api-public/v1/incidents/reroute"}

(* The entries of a good answer that escalate_unpaged_incidents is to      *)
(* reroute, in the answer's order.                                         *)
EntriesToReroute(cfg, resp) ==
    SelectSeq(resp.doc.incidents, LAMBDA e : PassesTeamFilter(cfg, e) /\ IsUnpaged(e))

(* C6: the reroute request of escalate_unpaged_incidents names exactly the *)
(* fetched incidents (after the team filter) that are UNACKED and have no  *)
(* paged user, each once and in fetch order, all targeted at the given     *)
(* escalation policy; and it is sent whenever there is such an incident.   *)
C6_RerouteNamesExactlyUnpaged ==
    Called("escalate_unpaged_incidents") =>
        /\ \A k \in RerouteRequests(cli_out.log) :
               /\ GoodIncidentsAnswer(cli_in.resp)
               /\ cli_out.log[k].method = "POST"
               /\ LET want == EntriesToReroute(cli_in.cfg, cli_in.resp)
                      got == cli_out.log[k].body.reroutes
                  IN /\ Len(got) = Len(want)
                     /\ \A j \in 1..Len(got) :
                            /\ got[j].incidentNumber = want[j].incidentNumber
                            /\ got[j].targets = <<[type |-> "EscalationPolicy", slug |-> cli_in.policy]>>
        /\ (GoodIncidentsAnswer(cli_in.resp) /\ EntriesToReroute(cli_in.cfg, cli_in.resp) # <<>>)
               => Cardinality(RerouteRequests(cli_out.log)) = 1

C6_Witness ==
    /\ Called("escalate_unpaged_incidents")
    /\ GoodIncidentsAnswer(cli_in.resp)
    /\ Len(cli_in.resp.doc.incidents) = 2
    /\ \E k \in RerouteRequests(cli_out.log) : Len(cli_out.log[k].body.reroutes) = 1
    /\ \E j \in 1..2 : LET e == cli_in.resp.doc.incidents[j]
                       IN PassesTeamFilter(cli_in.cfg, e) /\ ~IsUnpaged(e)

(* C7: no reroute request is sent for an empty set of incidents:           *)
(* reroute_incidents([]) sends nothing and returns None, and               *)
(* escalate_unpaged_incidents with no unpaged incident sends only its GET. *)
C7_NoVacuousReroute ==
    /\ cli_pc = "done" =>
           \A k \in RerouteRequests(cli_out.log) : cli_out.log[k].body.reroutes # <<>>
    /\ (Called("reroute_incidents") /\ cli_in.incidents = <<>>) =>
           (cli_out.log = <<>> /\ cli_out.returned = "None" /\ cli_out.exc = "none")
    /\ ( /\ Called("escalate_unpaged_incidents")
         /\ GoodIncidentsAnswer(cli_in.resp)
         /\ EntriesToReroute(cli_in.cfg, cli_in.resp) = <<>> ) =>
           (cli_out.log = <<GetIncidents>> /\ cli_out.returned = "None" /\ cli_out.exc = "none")

C7_Witness ==
    /\ Called("escalate_unpaged_incidents")
    /\ GoodIncidentsAnswer(cli_in.resp)
    /\ Len(cli_in.resp.doc.incidents) = 2
    /\ cli_out.log = <<GetIncidents>>

TransportErrors == {"ConnectTimeout", "ConnectionError", "HTTPError"}

HasResult(resp) == resp.isjson /\ "result" \in DOMAIN resp.doc

C9_NoRetries ==
    /\ (cli_pc = "done" /\ cli_op \in {"send_page", "fetch_incidents", "fetch_oncallers"}) =>
           /\ Len(cli_out.log) = 1
           /\ (cli_in.resp.exc # "none" \/ cli_in.resp.status \in 400..599)
                  => cli_out.exc \in TransportErrors
    /\ \A w \in Workers :
           /\ (pc[w] = "get_done" /\ ~hit[w]) => reqs[w] = 1
           /\ pc[w] \in {"sending", "clear_wait", "clear", "submit_done"} => reqs[w] = 1
           /\ pc[w] \in {"fetching", "store_wait", "store"} => reqs[w] = 1

C9_Witness ==
    \E w \in Workers : pc[w] = "get_done" /\ ret[w].kind = "HTTPError" /\ reqs[w] = 1

(* C10: fetch_incidents with a non-empty team filter yields exactly the    *)
(* incidents whose teams intersect the filter, in the answer's order; with *)
(* no filter (absent, empty string, empty set) it yields every incident.   *)
C10_TeamFilter ==
    (Called("fetch_incidents") /\ GoodIncidentsAnswer(cli_in.resp)) =>
        LET es == cli_in.resp.doc.incidents
            want == SelectSeq(es, LAMBDA e : PassesTeamFilter(cli_in.cfg, e))
            got == cli_out.items
        IN /\ cli_out.exc = "none"
           /\ Len(got) = Len(want)
           /\ \A j \in 1..Len(got) :
                  got[j].id = want[j].incidentNumber /\ got[j].teams = Range(want[j].pagedTeams)
           /\ cli_in.cfg \in {CfgNone, CfgStr(""), CfgSet({})} => Len(got) = Len(es)

C10_Witness ==
    /\ Called("fetch_incidents") /\ GoodIncidentsAnswer(cli_in.resp)
    /\ cli_in.cfg = CfgStr("team-sre")
    /\ Len(cli_in.resp.doc.incidents) = 2 /\ Len(cli_out.items) = 1

----------------------------------------------------------------------------
(* Properties of fetch_incidents as a generator (ClientSpec) *)

(* C11: fetch_incidents delivers no partial result: when its call ends in  *)
(* a failure (the HTTP exchange fails, or an entry of the answer lacks a   *)
(* required field) the caller has received no incident from it; and an     *)
(* answer with a malformed entry always ends in a failure.                 *)
C11_NoPartialResult ==
    Called("fetch_incidents") =>
        /\ cli_out.exc # "none" => cli_out.items = <<>>
        /\ ( /\ exchange_exc(cli_in.resp) = "none"
             /\ "incidents" \in DOMAIN cli_in.resp.doc
             /\ \E k \in 1..Len(cli_in.resp.doc.incidents) :
                    ~(RequiredKeys \subseteq DOMAIN cli_in.resp.doc.incidents[k]) )
               => cli_out.exc # "none"

----------------------------------------------------------------------------
(* Properties of a cache fill: the list fetch_victorops builds (WebSpec) *)

SortedDescending(list) ==
    \A i \in 1..Len(list) : \A j \in 1..Len(list) : i < j => list[i].time >= list[j].time

(* C12: the list a cache fill produces, and so the list the slot holds, is *)
(* sorted by incident time in descending order, most recent first.         *)
C12_FillSortedDescending ==
    /\ \A w \in Workers : pc[w] \in {"store_wait", "store"} => SortedDescending(v[w].list)
    /\ api_cache # <<>> => SortedDescending(api_cache[1].value.list)

C12_Witness ==
    \E w \in Workers :
        /\ pc[w] = "store_wait"
        /\ Len(v[w].list) >= 3
        /\ v[w].list[1].time > v[w].list[Len(v[w].list)].time

(* The incidents of a list that have time t, in the list's order. *)
TiesOf(list, t) == SelectSeq(list, LAMBDA x : x.time = t)

(* What the upstream fetch yields for the feed, in fetch order. *)
FetchedFromFeed == fetch_incidents(Response(200, [incidents |-> upstream]), vo_team_ids).items

(* C13: the sort of a cache fill is stable with respect to the fetch       *)
(* order: incidents of equal time are in the returned list in the order in *)
(* which the upstream fetch yielded them.                                  *)
C13_TiesKeepFetchOrder ==
    \A w \in Workers :
        pc[w] \in {"store_wait", "store"} =>
            \A k \in 1..Len(v[w].list) :
                TiesOf(v[w].list, v[w].list[k].time) = TiesOf(FetchedFromFeed, v[w].list[k].time)

InsideWindow(t, time) == t - time < KLAXON_INCIDENT_LIST_RECENCY_MINUTES

(* C14: a cache fill keeps exactly the fetched incidents that are inside   *)
(* the recency window, measured against the time it read once when the     *)
(* fill began (now - time < window): none at or beyond the window is kept, *)
(* none inside it is dropped; and a cache hit returns the stored list as   *)
(* it is, without filtering it again.                                      *)
C14_RecencyFilter ==
    \A w \in Workers :
        /\ pc[w] \in {"store_wait", "store"} =>
               /\ Range(v[w].list) \subseteq Range(FetchedFromFeed)
               /\ Len(v[w].list) =
                      Cardinality({k \in 1..Len(FetchedFromFeed) :
                                       InsideWindow(now_read[w], FetchedFromFeed[k].time)})
               /\ \A k \in 1..Len(FetchedFromFeed) :
                      LET t == FetchedFromFeed[k].time IN
                      Len(TiesOf(v[w].list, t)) =
                          IF InsideWindow(now_read[w], t) THEN Len(TiesOf(FetchedFromFeed, t)) ELSE 0
        /\ (pc[w] = "get_done" /\ hit[w]) =>
               (api_cache # <<>> /\ ret[w] = api_cache[1].value)

(* A hit that returns an incident which has left the window since the     *)
(* fill, from a fill that dropped an incident exactly one window old.      *)
C14_Witness ==
    \E w \in Workers :
        /\ pc[w] = "get_done" /\ hit[w]
        /\ \E k \in 1..Len(ret[w].list) : ~InsideWindow(now, ret[w].list[k].time)
        /\ \E k \in 1..Len(FetchedFromFeed) :
               /\ 0 - FetchedFromFeed[k].time = KLAXON_INCIDENT_LIST_RECENCY_MINUTES
               /\ \A j \in 1..Len(ret[w].list) : ret[w].list[j].time # FetchedFromFeed[k].time

----------------------------------------------------------------------------
(* Properties of failures in the web application (WebSpec) *)

(* What fetch_incidents raises on answer a ("none": it succeeds). *)
FetchFailure(a) == fetch_incidents(a, vo_team_ids).exc

(* A failed get() raised what its own upstream call raised; the slot and   *)
(* the store path only ever see the list of a call that succeeded.         *)
C15_States ==
    /\ api_cache # <<>> => api_cache[1].value.kind = "value"
    /\ \A w \in Workers :
        /\ (pc[w] = "get_done" /\ hit[w]) => ret[w].kind = "value"
        /\ (pc[w] = "get_done" /\ ret[w].kind # "value") =>
               /\ ~hit[w] /\ reqs[w] = 1
               /\ FetchFailure(answer[w]) # "none"
               /\ ret[w].kind = FetchFailure(answer[w])
        /\ pc[w] \in {"store_wait", "store"} => FetchFailure(answer[w]) = "none"

(* The step that receives a failed answer leaves the slot as it is and     *)
(* ends the get(); the slot changes only by a clear or by the store of a   *)
(* fetched list; a get() that finds no live item calls upstream anew.      *)
C15_Steps ==
    /\ \A w \in Workers :
        /\ (pc[w] = "fetching" /\ pc'[w] # "fetching" /\ FetchFailure(answer'[w]) # "none") =>
               /\ api_cache' = api_cache
               /\ pc'[w] = "get_done"
               /\ ret'[w].kind = FetchFailure(answer'[w])
        /\ (pc[w] = "lookup" /\ pc'[w] # "lookup" /\ ~SlotHoldsResult) => pc'[w] = "miss"
        /\ (pc[w] = "miss" /\ pc'[w] # "miss") => (pc'[w] = "fetching" /\ ncalls' = ncalls + 1)
    /\ api_cache' # api_cache =>
           \/ api_cache' = <<>>
           \/ \E u \in Workers : /\ pc[u] = "store" /\ FetchFailure(answer[u]) = "none"
                                 /\ api_cache'[1].value = v[u]

(* C15: a failure is never cached: when the upstream fetch or the parsing  *)
(* of its answer fails during a get(), that error is raised to the caller, *)
(* the cache slot is left as it was, and a later get() that finds no live  *)
(* item makes a new upstream call; no error and no empty list standing for *)
(* one is ever served from the cache.                                      *)
C15_FailureNeverCached == [](C15_States) /\ [][C15_Steps]_vars

(* A get() has failed on a malformed entry while the slot holds the list   *)
(* of an earlier call, untouched.                                          *)
C15_Witness ==
    \E w \in Workers :
        /\ pc[w] = "get_done" /\ ret[w].kind = "KeyError" /\ reqs[w] = 1
        /\ api_cache # <<>> /\ api_cache[1].value.kind = "value"
        /\ api_cache[1].value.call < ncalls

(* submit_page is past send_page only when send_page returned; it ends     *)
(* with the redirect only then, and with send_page's exception otherwise.  *)
C16_States ==
    \A w \in Workers :
        /\ pc[w] \in {"clear_wait", "clear"} => send_page(answer[w]) = "none"
        /\ pc[w] = "submit_done" =>
               IF send_page(answer[w]) = "none" THEN ret[w].kind = "redirect"
               ELSE ret[w].kind = send_page(answer[w])

(* The steps of submit_page: the one that receives send_page's outcome     *)
(* leaves the slot as it is; after a success the handler takes the lock    *)
(* and empties the slot before it redirects; nothing else empties it.      *)
C16_Steps ==
    /\ \A w \in Workers :
        /\ (pc[w] = "sending" /\ pc'[w] # "sending") =>
               /\ api_cache' = api_cache /\ clears' = clears
               /\ pc'[w] = IF send_page(answer'[w]) = "none" THEN "clear_wait" ELSE "submit_done"
        /\ (pc[w] = "clear_wait" /\ pc'[w] # "clear_wait") =>
               (pc'[w] = "clear" /\ api_cache' = api_cache /\ clears' = clears)
        /\ (pc[w] = "clear" /\ pc'[w] # "clear") =>
               (pc'[w] = "submit_done" /\ api_cache' = <<>> /\ clears' = clears + 1)
    /\ (clears' # clears \/ (api_cache # <<>> /\ api_cache' = <<>>)) =>
           \E u \in Workers : pc[u] = "clear" /\ pc'[u] = "submit_done"

(* C16: submit_page invalidates the cache only after send_page has         *)
(* returned successfully, and does so before it answers with the redirect; *)
(* when send_page raises, the cache slot is left unchanged and the handler *)
(* ends with that exception, without the success message or the redirect.  *)
C16_InvalidateOnlyAfterSuccess == [](C16_States) /\ [][C16_Steps]_vars

(* send_page has raised VictorOpsError and the slot still holds its list. *)
C16_Witness ==
    \E w \in Workers :
        /\ pc[w] = "submit_done" /\ ret[w].kind = "VictorOpsError"
        /\ api_cache # <<>> /\ clears = 0

====
